---- MODULE Spec2Model ----
(***************************************************************************)
(* chryth: WASAPI loopback capture feeding a spectrum display              *)
(* (src/src/util.rs, src/src/main.rs) and a recording example              *)
(* (src/examples/record.rs).                                               *)
(*                                                                         *)
(* One thread drives everything; the only other actor is the audio device, *)
(* which queues captured packets and may fail any call made to it.         *)
(***************************************************************************)
EXTENDS Integers, Sequences, FiniteSets, TLC

\* ------------------------------------------------------------------ sizes

\* util.rs:40 `const SIZE: usize = 2048`, scaled down so that queues shorter
\* than, equal to and longer than a window are all explored.
SIZE == 3

\* Frames the device captures in one run, and the largest packet it queues.
MaxFrames == 6
MaxPacket == 3

\* Largest chunk handed to the frame decoder when it is exercised on its own.
MaxChunk == 6

\* nBlockAlign of the negotiated mix format (bytes per frame).
BlockAligns == {1, 2, 4}

\* nSamplesPerSec of the negotiated mix format.
SampleRates == {48000}

\* The range taken inclusive, `1..=70`.
FreqIndicesInclusive == 1 .. 70

\* util.rs:82 `(1..70)`: the indices of the published points.
FreqIndices == 1 .. 69

\* What a read of memory the device has taken back may yield.
GarbageBytes == {0, 170}

\* Byte values fed to the frame decoder when it is exercised on its own.
ProbeBytes == {1, 255}

\* ------------------------------------------------------- pure operators

RECURSIVE Concat(_)
Concat(ss) == IF ss = <<>> THEN <<>> ELSE Head(ss) \o Concat(Tail(ss))

\* Byte j (0-based) of captured frame number id, as the device wrote it.
DeviceByte(id, j) == (id * 67 + j * 131 + 200) % 256

FrameBytes(id, block_align) == [j \in 1 .. block_align |-> DeviceByte(id, j - 1)]

\* The device memory a packet (a sequence of frame numbers) occupies.
RegionBytes(packet, block_align) ==
    Concat([i \in 1 .. Len(packet) |-> FrameBytes(packet[i], block_align)])

\* slice::chunks(n): consecutive pieces of n elements, the last one shorter
\* when the length is no multiple of n.
RECURSIVE Chunks(_, _)
Chunks(buffer, n) ==
    IF Len(buffer) = 0 THEN <<>>
    ELSE IF Len(buffer) <= n THEN <<buffer>>
    ELSE <<SubSeq(buffer, 1, n)>> \o Chunks(SubSeq(buffer, n + 1, Len(buffer)), n)

\* The two bytes read most significant first.
I16FromBytesBigEndian(b0, b1) ==
    LET u == 256 * b0 + b1 IN IF u >= 32768 THEN u - 65536 ELSE u

\* i16::from_ne_bytes([b0, b1]) on the little-endian targets Windows runs on.
I16FromBytes(b0, b1) ==
    LET u == b0 + 256 * b1 IN IF u >= 32768 THEN u - 65536 ELSE u

\* `frame[1]` is an index out of bounds on a frame of fewer than two bytes.
FramePanics(frame) == Len(frame) < 2

FrameSample(frame) == I16FromBytes(frame[1], frame[2])

\* The samples `extend` pushes: one per frame, up to the first frame on which
\* the closure panics.
RECURSIVE DecodeFrames(_)
DecodeFrames(fs) ==
    IF fs = <<>> \/ FramePanics(Head(fs)) THEN <<>>
    ELSE <<FrameSample(Head(fs))>> \o DecodeFrames(Tail(fs))

IngestPanics(buffer, block_align) ==
    \E i \in 1 .. Len(Chunks(buffer, block_align)) :
        FramePanics(Chunks(buffer, block_align)[i])

IngestSamples(buffer, block_align) == DecodeFrames(Chunks(buffer, block_align))

\* The byte count taken for the frame count.
BufferLengthInFrames(stored, block_align) == stored

\* util.rs:168 `stored_frames * block_align`.
BufferLength(stored, block_align) == stored * block_align

\* One frame fewer than was lent.
ReleaseCountOffByOne(stored) == stored - 1

\* util.rs:179 the frame count handed to ReleaseBuffer.
ReleaseCount(stored) == stored

\* The guard off by one: a queue one short of a window passes it.
NotEnoughOffByOne(len) == len < SIZE - 1

\* util.rs:68 `self.samples.len() < SIZE`.
NotEnough(len) == len < SIZE

\* No skip: the window is taken from the front of the queue.
ExtractSkipsFromFront(len) == 0

\* util.rs:71 `len.saturating_sub(SIZE)`.
ExtractSkips(len) == IF len >= SIZE THEN len - SIZE ELSE 0

\* VecDeque::drain(lo..hi) panics when hi exceeds the length.
DrainPanics(q, lo, hi) == hi > Len(q) \/ lo > hi

DrainTaken(q, lo, hi) == SubSeq(q, lo + 1, hi)

\* The range copied out, not drained.
DrainRestKeepsAll(q, lo, hi) == q

DrainRest(q, lo, hi) == SubSeq(q, 1, lo) \o SubSeq(q, hi + 1, Len(q))

\* util.rs:74-86: the power the transform of the Hann-windowed samples has at
\* freq. The transform is the spectrum_analyzer crate's; its value is kept as
\* the term it is computed from.
Power(window, rate, freq) == [of |-> window, rate |-> rate, at |-> freq]

\* util.rs:87-91, the commented-out alternative: one point per computed value.
AnalyzeEveryBin(window, rate) ==
    [k \in 1 .. Len(window) |-> <<k * 200, Power(window, rate, k * 200)>>]

Analyze(window, rate) ==
    [k \in FreqIndices |-> <<k * 200, Power(window, rate, k * 200)>>]

\* ------------------------------------------------------------------ state

VARIABLES
    program,          \* "spectrum" (main.rs), "record" (examples/record.rs) or "ingest"
    pc,               \* where the thread is
    wave_format,      \* the negotiated format: block_align, samples_per_sec
    packets,          \* device: captured packets not yet consumed, oldest first
    produced,         \* device: frames captured so far (the next frame's number)
    held,             \* device: the packet lent out by GetBuffer, <<>> when none
    streamStarts,     \* successful IAudioClient::Start calls
    streamStops,      \* successful IAudioClient::Stop calls
    tornDown,         \* the audio client interfaces were dropped
    frames,           \* local: GetCurrentPadding's answer
    stored_frames,    \* local: GetBuffer's frame count
    buffer,           \* local: the owned copy get_buffer returns
    samples,          \* App.samples
    data,             \* App.data, the published output
    buffer_all,       \* capture_audio's payload
    pollAcquired,     \* history: the packets GetBuffer lent in the current poll
    pollReleased,     \* history: the counts passed to ReleaseBuffer in it
    pollResult,       \* history: "none", "chunk" or "error", the last poll's
    staleRead,        \* history: device memory was read while not lent out
    tickChunks,       \* history: the chunks the polls of this tick returned, each
                      \* with the packet it was copied from
    tickStartSamples, \* history: App.samples when the tick began
    tickStartData,    \* history: App.data when the tick began
    tickOutcome,      \* history: how the tick's extraction ended
    preExtract,       \* history: App.samples just before the extraction
    lastWindow,       \* history: the window handed to the analyzer
    panicAt,          \* the message of the error that ended the program
    chunk,            \* the chunk under test when the decoder runs on its own
    sampleIds,        \* history: the captured frame each queued sample came from
    windows,          \* history: the windows handed to the analyzer so far, as
                      \* the frame numbers of their samples
    undelayed         \* history: a poll found nothing and no delay has followed

devVars == <<packets, produced, held>>
lifeVars == <<streamStarts, streamStops, tornDown>>
localVars == <<frames, stored_frames, buffer>>
appVars == <<samples, data>>
pollHist == <<pollAcquired, pollReleased, pollResult, staleRead>>
tickHist == <<tickChunks, tickStartSamples, tickStartData, tickOutcome,
              preExtract, lastWindow>>

histVars == <<sampleIds, windows, undelayed>>

vars == <<program, pc, wave_format, devVars, lifeVars, localVars, appVars,
          buffer_all, pollHist, tickHist, panicAt, chunk, histVars>>

Formats == [block_align : BlockAligns, samples_per_sec : SampleRates]

\* Everything but program, pc, wave_format, samples and chunk, as it is when a
\* process starts.
Fresh ==
    /\ packets = <<>> /\ produced = 0 /\ held = <<>>
    /\ streamStarts = 0 /\ streamStops = 0 /\ tornDown = FALSE
    /\ frames = 0 /\ stored_frames = 0 /\ buffer = <<>>
    /\ data = <<>> /\ buffer_all = <<>>
    /\ pollAcquired = <<>> /\ pollReleased = <<>> /\ pollResult = "none"
    /\ staleRead = FALSE
    /\ tickChunks = <<>> /\ tickStartSamples = <<>> /\ tickStartData = <<>>
    /\ tickOutcome = "idle" /\ preExtract = <<>> /\ lastWindow = <<>>
    /\ panicAt = ""
    /\ sampleIds = <<>> /\ windows = <<>> /\ undelayed = FALSE

\* util.rs:50-57 App::new, main.rs:41-47; record.rs:38-58.
Init ==
    /\ program \in {"spectrum", "record"}
    /\ pc = "setup"
    /\ wave_format \in Formats
    /\ samples = <<>>
    /\ chunk = <<>>
    /\ Fresh

\* ----------------------------------------------------------------- device

Streaming == streamStarts > streamStops /\ ~tornDown

\* The endpoint captures k more frames and queues them as one packet.
DeviceCapture ==
    /\ Streaming
    /\ \E k \in 1 .. MaxPacket :
        /\ produced + k <= MaxFrames
        /\ packets' = Append(packets, [i \in 1 .. k |-> produced + i - 1])
        /\ produced' = produced + k
    /\ UNCHANGED <<program, pc, wave_format, held, lifeVars, localVars, appVars,
                   buffer_all, pollHist, tickHist, panicAt, chunk, histVars>>

\* IAudioClient::GetCurrentPadding on a shared-mode capture stream: the frames
\* of the next packet, 0 when none is queued.
CurrentPadding == IF packets = <<>> THEN 0 ELSE Len(Head(packets))

\* IAudioCaptureClient::GetBuffer lends the next packet (an empty one when
\* none is queued).
NextPacket == IF packets = <<>> THEN <<>> ELSE Head(packets)

\* IAudioCaptureClient::ReleaseBuffer(n) accepts the lent packet's size (the
\* packet is consumed) or 0 (it stays queued); anything else is refused.
ReleaseAccepted(n) == n = Len(held) \/ n = 0

PacketsAfterRelease(n) ==
    IF n = Len(held) /\ n > 0 /\ packets # <<>> THEN Tail(packets) ELSE packets

\* The bytes a read of n bytes through buffer_ptr can yield: the lent packet's
\* while it is lent, anything once the device has it back or past its end.
ReadRegion(n) ==
    IF held # <<>> /\ n <= Len(RegionBytes(held, wave_format.block_align))
    THEN {SubSeq(RegionBytes(held, wave_format.block_align), 1, n)}
    ELSE {[i \in 1 .. n |-> g] : g \in GarbageBytes}

ReadIsStale(n) ==
    ~(held # <<>> /\ n <= Len(RegionBytes(held, wave_format.block_align)))

\* --------------------------------------------- the spectrum program's thread

\* The buffer released before it is copied.
GetBufferOrderReleaseFirst ==
    <<"gb_padding", "gb_acquire", "gb_release", "gb_copy", "gb_return">>

\* util.rs:151-182: the statements of Client::get_buffer in program order.
GetBufferOrder ==
    <<"gb_padding", "gb_acquire", "gb_copy", "gb_release", "gb_return">>

StepAfter(order, s) ==
    order[(CHOOSE i \in 1 .. Len(order) - 1 : order[i] = s) + 1]

\* The loop waits for data: an empty poll is followed by another poll.
AfterEmptyPollWait == "gb_padding"

\* util.rs:61, 68: Ok(None) ends the `while let`; the extraction follows.
AfterEmptyPoll == "tick_extract"

\* `if let` in place of `while let`: one poll per tick.
AfterIngestOnce == "tick_extract"

\* util.rs:61 `while let Some(buffer) = ...`: after the body, poll again.
AfterIngest == GetBufferOrder[1]

\* The error taken for "no data": the drain loop just ends.
ErrorIgnored(msg) ==
    /\ pc' = "tick_extract"
    /\ panicAt' = msg
    /\ UNCHANGED lifeVars

\* A panic unwinds main: `app`, and the Client in it, is dropped.
Panic(msg) ==
    /\ pc' = "panicked"
    /\ panicAt' = msg
    /\ tornDown' = TRUE
    /\ UNCHANGED <<streamStarts, streamStops>>

\* util.rs:107-145 Client::new, followed by main.rs:47 App::new.
ClientNew ==
    /\ program = "spectrum" /\ pc = "setup"
    /\ \/ /\ pc' = "failed"
          /\ panicAt' \in {"Failed to activate audio client.",
                           "Failed to start audio client."}
          /\ UNCHANGED lifeVars
       \/ /\ pc' = "idle"
          /\ streamStarts' = streamStarts + 1
          /\ UNCHANGED <<streamStops, tornDown, panicAt>>
    /\ UNCHANGED <<program, wave_format, devVars, localVars, appVars, buffer_all,
                   pollHist, tickHist, chunk, histVars>>

\* main.rs:79-84, util.rs:59-61: the loop calls on_tick, which enters its
\* first get_buffer.
OnTickBegin ==
    /\ program = "spectrum" /\ pc = "idle"
    /\ pc' = GetBufferOrder[1]
    /\ tickChunks' = <<>>
    /\ tickStartSamples' = samples
    /\ tickStartData' = data
    /\ tickOutcome' = "running"
    /\ preExtract' = <<>>
    /\ lastWindow' = <<>>
    /\ pollAcquired' = <<>> /\ pollReleased' = <<>> /\ pollResult' = "pending"
    /\ UNCHANGED <<program, wave_format, devVars, lifeVars, localVars, appVars,
                   buffer_all, staleRead, panicAt, chunk, histVars>>

\* main.rs:79, 115: the window is closed; main returns and drops `app`.
MainExit ==
    /\ program = "spectrum" /\ pc = "idle"
    /\ pc' = "exited"
    /\ tornDown' = TRUE
    /\ UNCHANGED <<program, wave_format, devVars, streamStarts, streamStops,
                   localVars, appVars, buffer_all, pollHist, tickHist, panicAt,
                   chunk, histVars>>

\* util.rs:153-159: GetCurrentPadding; an error is returned (and on_tick's
\* expect panics), zero frames returns Ok(None), which ends the drain loop.
PollPadding ==
    /\ program = "spectrum" /\ pc = "gb_padding"
    /\ \/ /\ Panic("Failed to get current padding.")
          /\ pollResult' = "error"
          /\ UNCHANGED <<frames, undelayed>>
       \/ /\ frames' = CurrentPadding
          /\ IF CurrentPadding = 0
             THEN pc' = AfterEmptyPoll /\ pollResult' = "none"
             ELSE pc' = StepAfter(GetBufferOrder, pc) /\ pollResult' = "pending"
          /\ undelayed' = (CurrentPadding = 0)
          /\ UNCHANGED <<lifeVars, panicAt>>
    /\ UNCHANGED <<program, wave_format, devVars, stored_frames, buffer, appVars,
                   buffer_all, pollAcquired, pollReleased, staleRead, tickHist,
                   chunk, sampleIds, windows>>

\* util.rs:161-166: GetBuffer.
PollAcquire ==
    /\ program = "spectrum" /\ pc = "gb_acquire"
    /\ \/ /\ Panic("Failed to get buffer.")
          /\ pollResult' = "error"
          /\ UNCHANGED <<held, stored_frames, pollAcquired>>
       \/ /\ held' = NextPacket
          /\ stored_frames' = Len(NextPacket)
          /\ pollAcquired' = Append(pollAcquired, NextPacket)
          /\ pc' = StepAfter(GetBufferOrder, pc)
          /\ UNCHANGED <<lifeVars, panicAt, pollResult>>
    /\ UNCHANGED <<program, wave_format, packets, produced, frames, buffer,
                   appVars, buffer_all, pollReleased, staleRead, tickHist, chunk, histVars>>

\* util.rs:168-176: the bytes behind buffer_ptr are cloned into an owned Vec.
PollCopy ==
    /\ program = "spectrum" /\ pc = "gb_copy"
    /\ LET n == BufferLength(stored_frames, wave_format.block_align) IN
        /\ buffer' \in ReadRegion(n)
        /\ staleRead' = (staleRead \/ ReadIsStale(n))
    /\ pc' = StepAfter(GetBufferOrder, pc)
    /\ UNCHANGED <<program, wave_format, devVars, lifeVars, frames, stored_frames,
                   appVars, buffer_all, pollAcquired, pollReleased, pollResult,
                   tickHist, panicAt, chunk, histVars>>

\* util.rs:178-180: ReleaseBuffer.
PollRelease ==
    /\ program = "spectrum" /\ pc = "gb_release"
    /\ pollReleased' = Append(pollReleased, ReleaseCount(stored_frames))
    /\ \/ /\ Panic("Failed to release buffer.")
          /\ pollResult' = "error"
          /\ UNCHANGED <<packets, held>>
       \/ /\ ReleaseAccepted(ReleaseCount(stored_frames))
          /\ packets' = PacketsAfterRelease(ReleaseCount(stored_frames))
          /\ held' = <<>>
          /\ pc' = StepAfter(GetBufferOrder, pc)
          /\ UNCHANGED <<lifeVars, panicAt, pollResult>>
    /\ UNCHANGED <<program, wave_format, produced, localVars, appVars, buffer_all,
                   pollAcquired, staleRead, tickHist, chunk, histVars>>

\* util.rs:182 and 61-67: Ok(Some(buffer)) is returned and the loop body
\* extends the queue with one sample per chunk of block_align bytes.
PollReturnIngest ==
    /\ program = "spectrum" /\ pc = "gb_return"
    /\ tickChunks' = Append(tickChunks, [bytes |-> buffer, packet |-> pollAcquired[1]])
    /\ samples' = samples \o IngestSamples(buffer, wave_format.block_align)
    /\ sampleIds' = sampleIds \o
           SubSeq(pollAcquired[1], 1,
                  Len(IngestSamples(buffer, wave_format.block_align)))
    /\ IF IngestPanics(buffer, wave_format.block_align)
       THEN /\ Panic("index out of bounds")
            /\ pollResult' = "chunk"
            /\ UNCHANGED <<pollAcquired, pollReleased>>
       ELSE /\ pc' = AfterIngest
            /\ pollAcquired' = <<>> /\ pollReleased' = <<>>
            /\ pollResult' = "chunk"
            /\ UNCHANGED <<lifeVars, panicAt>>
    /\ UNCHANGED <<program, wave_format, devVars, localVars, data, buffer_all,
                   staleRead, tickStartSamples, tickStartData, tickOutcome,
                   preExtract, lastWindow, chunk, windows, undelayed>>

\* util.rs:68-86: return when the queue is short; otherwise drain the window,
\* analyze it and publish.
TickExtract ==
    /\ program = "spectrum" /\ pc = "tick_extract"
    /\ preExtract' = samples
    /\ LET len == Len(samples)
           skips == ExtractSkips(len)
       IN IF NotEnough(len)
          THEN /\ pc' = "idle"
               /\ tickOutcome' = "insufficient"
               /\ UNCHANGED <<samples, data, lastWindow, lifeVars, panicAt,
                              sampleIds, windows>>
          ELSE IF DrainPanics(samples, skips, skips + SIZE)
          THEN /\ Panic("range end index out of range")
               /\ tickOutcome' = "drain_panic"
               /\ UNCHANGED <<samples, data, lastWindow, sampleIds, windows>>
          ELSE /\ pc' = "idle"
               /\ tickOutcome' = "published"
               /\ lastWindow' = DrainTaken(samples, skips, skips + SIZE)
               /\ samples' = DrainRest(samples, skips, skips + SIZE)
               /\ sampleIds' = DrainRest(sampleIds, skips, skips + SIZE)
               /\ windows' = Append(windows,
                                    DrainTaken(sampleIds, skips, skips + SIZE))
               /\ data' = Analyze(DrainTaken(samples, skips, skips + SIZE),
                                  wave_format.samples_per_sec)
               /\ UNCHANGED <<lifeVars, panicAt>>
    /\ UNCHANGED <<program, wave_format, devVars, localVars, buffer_all, pollHist,
                   tickChunks, tickStartSamples, tickStartData, chunk, undelayed>>

\* ---------------------------------------------- the recording tool's thread

\* The buffer released before its bytes are appended.
RecordOrderReleaseFirst ==
    <<"rec_padding", "rec_acquire", "rec_release", "rec_copy", "rec_sleep">>

\* record.rs:137-164: the statements of one iteration of the capture loop.
RecordOrder ==
    <<"rec_padding", "rec_acquire", "rec_copy", "rec_release", "rec_sleep">>

\* `?` returns the error from capture_audio, dropping audio_client; main's
\* expect then panics.
RecordErr(msg) ==
    /\ pc' = "rec_err"
    /\ panicAt' = msg
    /\ tornDown' = TRUE
    /\ UNCHANGED <<streamStarts, streamStops>>

\* record.rs:98-134: activate, negotiate, initialize, start.
CaptureSetup ==
    /\ program = "record" /\ pc = "setup"
    /\ \/ /\ pc' = "failed"
          /\ panicAt' \in {"Failed to activate audio client.",
                           "Failed to start audio client."}
          /\ UNCHANGED lifeVars
       \/ /\ pc' = "rec_loop"
          /\ streamStarts' = streamStarts + 1
          /\ UNCHANGED <<streamStops, tornDown, panicAt>>
    /\ UNCHANGED <<program, wave_format, devVars, localVars, appVars, buffer_all,
                   pollHist, tickHist, chunk, histVars>>

\* record.rs:136 `while started_at.elapsed() < duration`.
CaptureLoop ==
    /\ program = "record" /\ pc = "rec_loop"
    /\ pc' \in {RecordOrder[1], "rec_stop"}
    /\ pollAcquired' = <<>> /\ pollReleased' = <<>> /\ pollResult' = "pending"
    /\ UNCHANGED <<program, wave_format, devVars, lifeVars, localVars, appVars,
                   buffer_all, staleRead, tickHist, panicAt, chunk, histVars>>

\* record.rs:137-142: GetCurrentPadding; zero frames continues the loop.
CapturePadding ==
    /\ program = "record" /\ pc = "rec_padding"
    /\ \/ /\ RecordErr("Failed to get current padding.")
          /\ pollResult' = "error"
          /\ UNCHANGED <<frames, undelayed>>
       \/ /\ frames' = CurrentPadding
          /\ IF CurrentPadding = 0
             THEN pc' = "rec_loop" /\ pollResult' = "none"
             ELSE pc' = StepAfter(RecordOrder, pc) /\ pollResult' = "pending"
          /\ undelayed' = (CurrentPadding = 0)
          /\ UNCHANGED <<lifeVars, panicAt>>
    /\ UNCHANGED <<program, wave_format, devVars, stored_frames, buffer, appVars,
                   buffer_all, pollAcquired, pollReleased, staleRead, tickHist,
                   chunk, sampleIds, windows>>

\* record.rs:144-147: GetBuffer.
CaptureAcquire ==
    /\ program = "record" /\ pc = "rec_acquire"
    /\ \/ /\ RecordErr("GetBuffer")
          /\ pollResult' = "error"
          /\ UNCHANGED <<held, stored_frames, pollAcquired>>
       \/ /\ held' = NextPacket
          /\ stored_frames' = Len(NextPacket)
          /\ pollAcquired' = Append(pollAcquired, NextPacket)
          /\ pc' = StepAfter(RecordOrder, pc)
          /\ UNCHANGED <<lifeVars, panicAt, pollResult>>
    /\ UNCHANGED <<program, wave_format, packets, produced, frames, buffer,
                   appVars, buffer_all, pollReleased, staleRead, tickHist, chunk, histVars>>

\* record.rs:149-158: the bytes behind buffer_ptr are appended to buffer_all.
CaptureCopy ==
    /\ program = "record" /\ pc = "rec_copy"
    /\ LET n == BufferLength(stored_frames, wave_format.block_align) IN
        /\ \E bytes \in ReadRegion(n) : buffer_all' = buffer_all \o bytes
        /\ staleRead' = (staleRead \/ ReadIsStale(n))
    /\ pc' = StepAfter(RecordOrder, pc)
    /\ UNCHANGED <<program, wave_format, devVars, lifeVars, localVars, appVars,
                   pollAcquired, pollReleased, pollResult, tickHist, panicAt,
                   chunk, histVars>>

\* record.rs:160-162: ReleaseBuffer.
CaptureRelease ==
    /\ program = "record" /\ pc = "rec_release"
    /\ pollReleased' = Append(pollReleased, ReleaseCount(stored_frames))
    /\ \/ /\ RecordErr("Failed to release buffer.")
          /\ pollResult' = "error"
          /\ UNCHANGED <<packets, held>>
       \/ /\ ReleaseAccepted(ReleaseCount(stored_frames))
          /\ packets' = PacketsAfterRelease(ReleaseCount(stored_frames))
          /\ held' = <<>>
          /\ pc' = StepAfter(RecordOrder, pc)
          /\ pollResult' = "chunk"
          /\ UNCHANGED <<lifeVars, panicAt>>
    /\ UNCHANGED <<program, wave_format, produced, localVars, appVars, buffer_all,
                   pollAcquired, staleRead, tickHist, chunk, histVars>>

\* record.rs:164: sleep 100 microseconds, then the loop condition again.
CaptureSleep ==
    /\ program = "record" /\ pc = "rec_sleep"
    /\ pc' = "rec_loop"
    /\ undelayed' = FALSE
    /\ UNCHANGED <<program, wave_format, devVars, lifeVars, localVars, appVars,
                   buffer_all, pollHist, tickHist, panicAt, chunk, sampleIds, windows>>

\* record.rs:167-169: Stop, then Ok((buffer_all, wave_format)); audio_client
\* is dropped as the function returns.
CaptureStop ==
    /\ program = "record" /\ pc = "rec_stop"
    /\ \/ RecordErr("Failed to stop client.")
       \/ /\ pc' = "rec_done"
          /\ streamStops' = streamStops + 1
          /\ tornDown' = TRUE
          /\ UNCHANGED <<streamStarts, panicAt>>
    /\ UNCHANGED <<program, wave_format, devVars, localVars, appVars, buffer_all,
                   pollHist, tickHist, chunk, histVars>>

RecordNext ==
    \/ CaptureSetup
    \/ CaptureLoop
    \/ CapturePadding
    \/ CaptureAcquire
    \/ CaptureCopy
    \/ CaptureRelease
    \/ CaptureSleep
    \/ CaptureStop

\* ------------------------------------------- the frame decoder on its own

RECURSIVE SeqsUpTo(_, _)
SeqsUpTo(S, n) ==
    IF n = 0 THEN {<<>>}
    ELSE SeqsUpTo(S, n - 1) \cup
         {Append(q, b) : q \in {r \in SeqsUpTo(S, n - 1) : Len(r) = n - 1}, b \in S}

\* Any format, any chunk (a whole number of frames or not), an empty or a
\* non-empty queue.
InitIngest ==
    /\ program = "ingest"
    /\ pc = "ingest_ready"
    /\ wave_format \in Formats
    /\ chunk \in SeqsUpTo(ProbeBytes, MaxChunk)
    /\ samples \in {<<>>, <<7, 0 - 7>>}
    /\ Fresh

\* util.rs:62-66 applied to `chunk`.
IngestApply ==
    /\ program = "ingest" /\ pc = "ingest_ready"
    /\ tickStartSamples' = samples
    /\ samples' = samples \o IngestSamples(chunk, wave_format.block_align)
    /\ IF IngestPanics(chunk, wave_format.block_align)
       THEN pc' = "panicked" /\ panicAt' = "index out of bounds"
       ELSE pc' = "ingest_done" /\ UNCHANGED panicAt
    /\ UNCHANGED <<program, wave_format, devVars, lifeVars, localVars, data,
                   buffer_all, pollHist, tickChunks, tickStartData, tickOutcome,
                   preExtract, lastWindow, chunk, histVars>>

SpectrumNext ==
    \/ ClientNew
    \/ OnTickBegin
    \/ MainExit
    \/ PollPadding
    \/ PollAcquire
    \/ PollCopy
    \/ PollRelease
    \/ PollReturnIngest
    \/ TickExtract

Next ==
    \/ DeviceCapture
    \/ SpectrumNext
    \/ RecordNext

Spec == Init /\ [][Next]_vars

NextIngest == IngestApply

SpecIngest == InitIngest /\ [][NextIngest]_vars

\* A step of the visualizer's thread in which no device call fails: whether a
\* call fails is the device's choice, which no scheduling forces.
SpectrumStep == SpectrumNext /\ pollResult' # "error"

\* The one thread is always running: whatever step it is at is taken.
SpecLive == Spec /\ WF_vars(SpectrumStep) /\ WF_vars(RecordNext)

\* ----------------------------------------------------------------- claims

InPoll ==
    pc \in {"gb_padding", "gb_acquire", "gb_copy", "gb_release",
            "rec_padding", "rec_acquire", "rec_copy", "rec_release"}

TickEnded == tickOutcome \in {"insufficient", "published", "drain_panic"}

\* The frame numbers the device handed over during the tick, in order.
TickFrameIds == Concat([i \in 1 .. Len(tickChunks) |-> tickChunks[i].packet])

\* The sample the first two bytes of captured frame number id decode to.
SampleOfFrame(id) == I16FromBytes(DeviceByte(id, 0), DeviceByte(id, 1))

\* C1: window extraction in a tick yields nothing if and only if the queue is
\* shorter than SIZE; otherwise the window is exactly the last SIZE elements
\* the queue held just before, in order, and the queue afterwards is what
\* preceded them (none of the window's elements is left in it).
C1_WindowIsLastN ==
    TickEnded =>
        /\ (tickOutcome = "insufficient") <=> (Len(preExtract) < SIZE)
        /\ tickOutcome = "insufficient" => lastWindow = <<>> /\ samples = preExtract
        /\ Len(preExtract) >= SIZE =>
            /\ tickOutcome = "published"
            /\ Len(lastWindow) = SIZE
            /\ lastWindow = SubSeq(preExtract, Len(preExtract) - SIZE + 1,
                                   Len(preExtract))
            /\ samples = SubSeq(preExtract, 1, Len(preExtract) - SIZE)

\* A window was cut from a queue longer than a window.
C1_Witness == tickOutcome = "published" /\ Len(preExtract) = SIZE + 2

\* C2: after every successful extraction the queue is empty: the backlog
\* older than the window is removed together with the window.
C2_QueueEmptyAfterExtraction == tickOutcome = "published" => samples = <<>>

\* C3: a poll that acquired the device buffer has called ReleaseBuffer exactly
\* once by the time it returns, on every exit path, with the frame count its
\* GetBuffer reported; a poll that acquired nothing has released nothing; a
\* poll that returns without error leaves nothing lent out.
C3_ReleaseMatchesAcquire ==
    ~InPoll =>
        /\ Len(pollAcquired) <= 1
        /\ pollReleased = [i \in 1 .. Len(pollAcquired) |-> Len(pollAcquired[i])]
        /\ pollResult # "error" => held = <<>>

\* A poll returns after lending and releasing a packet of several frames.
C3_Witness ==
    /\ pc \in {"gb_return", "rec_sleep"}
    /\ Len(pollAcquired) = 1
    /\ Len(pollAcquired[1]) >= 2
    /\ pollReleased = <<Len(pollAcquired[1])>>

\* The frames of every chunk the polls of the running tick returned.
TickFrameCount ==
    Len(Concat([i \in 1 .. Len(tickChunks) |->
        Chunks(tickChunks[i].bytes, wave_format.block_align)]))

\* C4: for every block_align > 0, ingesting chunks whose length is a multiple
\* of block_align appends exactly one sample per frame and leaves the samples
\* already queued in place.
C4_IngestAppendsOnePerFrame ==
    (/\ program = "spectrum"
     /\ tickOutcome = "running"
     /\ wave_format.block_align > 0
     /\ \A i \in 1 .. Len(tickChunks) :
            Len(tickChunks[i].bytes) % wave_format.block_align = 0)
    => /\ panicAt # "index out of bounds"
       /\ Len(samples) = Len(tickStartSamples) + TickFrameCount
       /\ SubSeq(samples, 1, Len(tickStartSamples)) = tickStartSamples

C7_ShortTickKeepsOutput ==
    (TickEnded /\ Len(preExtract) < SIZE) =>
        /\ tickOutcome = "insufficient"
        /\ pc \in {"idle", "exited"}
        /\ panicAt = ""
        /\ data = tickStartData
        /\ samples = tickStartSamples \o
               [i \in 1 .. Len(TickFrameIds) |-> SampleOfFrame(TickFrameIds[i])]

\* A short tick after an earlier publication: samples were added, the output
\* is still the earlier one.
C7_Witness ==
    /\ tickOutcome = "insufficient"
    /\ data # <<>>
    /\ Len(samples) > Len(tickStartSamples)

\* C8: a poll returns nothing, without error, exactly when GetCurrentPadding
\* reported zero frames; when it reported f > 0 the poll acquires f frames and
\* returns an owned chunk of f * block_align bytes.
C8_PollResult ==
    program = "spectrum" =>
        /\ pollResult = "none" => frames = 0 /\ pollAcquired = <<>>
        /\ pc \in {"gb_acquire", "gb_copy", "gb_release", "gb_return"} => frames > 0
        /\ pc = "gb_return" =>
            /\ Len(pollAcquired) = 1
            /\ Len(pollAcquired[1]) = frames
            /\ stored_frames = frames
            /\ Len(buffer) = frames * wave_format.block_align

\* A poll is about to return a chunk of two or more frames of four bytes.
C8_Witness ==
    /\ pc = "gb_return"
    /\ frames >= 2
    /\ wave_format.block_align = 4
    /\ Len(buffer) = 4 * frames

\* C9: device memory is only ever read while the packet is lent out (after
\* GetBuffer, before ReleaseBuffer), and what a poll hands on is the copy made
\* then: the bytes of the packet it acquired.
C9_CopyBeforeRelease ==
    /\ ~staleRead
    /\ pc = "gb_return" =>
           buffer = RegionBytes(pollAcquired[1], wave_format.block_align)
    /\ pc = "rec_sleep" =>
           LET n == Len(RegionBytes(pollAcquired[1], wave_format.block_align)) IN
           /\ Len(buffer_all) >= n
           /\ SubSeq(buffer_all, Len(buffer_all) - n + 1, Len(buffer_all)) =
                  RegionBytes(pollAcquired[1], wave_format.block_align)

\* The packet has been released and its copy is about to be returned.
C9_Witness ==
    /\ pc = "gb_return"
    /\ held = <<>>
    /\ buffer # <<>>
    /\ pollReleased # <<>>

\* C10: the stream is started once and stopped once, every poll lies between
\* the start and the stop, and whenever the session is torn down the stream
\* has been stopped first.
C10_StoppedBeforeTornDown ==
    /\ streamStarts <= 1 /\ streamStops <= streamStarts
    /\ InPoll => streamStarts = 1 /\ streamStops = 0
    /\ (tornDown /\ streamStarts = 1) => streamStops = 1

\* The samples the frames numbered ids decode to.
SamplesOfFrames(ids) == [i \in 1 .. Len(ids) |-> SampleOfFrame(ids[i])]

PollErrors ==
    {"Failed to get current padding.", "Failed to get buffer.",
     "Failed to release buffer."}

\* C11: when a device call of a poll fails, the poll yields no chunk and the
\* error, which names the failed call, ends the tick: on_tick's expect panics
\* into its caller, no further poll is made, no window is extracted and the
\* published output stays as it was when the tick began.
C11_PollErrorIsFatal ==
    (program = "spectrum" /\ pollResult = "error") =>
        /\ pc = "panicked"
        /\ ~ENABLED SpectrumNext
        /\ panicAt \in PollErrors
        /\ panicAt = "Failed to get current padding." =>
               pollAcquired = <<>> /\ pollReleased = <<>>
        /\ panicAt = "Failed to get buffer." =>
               frames > 0 /\ pollAcquired = <<>> /\ pollReleased = <<>>
        /\ panicAt = "Failed to release buffer." =>
               Len(pollAcquired) = 1 /\ Len(pollReleased) = 1
        /\ tickOutcome = "running"
        /\ data = tickStartData
        /\ samples = tickStartSamples \o SamplesOfFrames(TickFrameIds)
        /\ \A i \in 1 .. Len(pollAcquired) :
               \A j \in 1 .. Len(tickChunks) : tickChunks[j].packet # pollAcquired[i]

\* A release fails in a tick that had already ingested a chunk, after an
\* earlier tick had published.
C11_Witness ==
    /\ pollResult = "error"
    /\ panicAt = "Failed to release buffer."
    /\ tickChunks # <<>>
    /\ tickStartData # <<>>

\* C12: after a tick that extracted a window the published output is exactly
\* 69 points, the k-th at 200*k Hz (so in increasing order), every one computed
\* from that tick's window: nothing of the previous output is kept.
C12_PublishedPoints ==
    tickOutcome = "published" =>
        /\ DOMAIN data = 1 .. 69
        /\ \A k \in DOMAIN data :
            /\ data[k][1] = 200 * k
            /\ data[k][2].of = lastWindow
            /\ data[k][2].at = data[k][1]
            /\ data[k][2].rate = wave_format.samples_per_sec
        /\ \A k \in DOMAIN data : k > 1 => data[k - 1][1] < data[k][1]

\* A second publication has replaced a different first one.
C12_Witness ==
    /\ tickOutcome = "published"
    /\ tickStartData # <<>>
    /\ data # tickStartData

\* C13: a poll that found no frames is followed by a delay before the next
\* poll: no poll begins while an empty poll has not been followed by a sleep.
C13_DelayAfterEmptyPoll == pc \in {"gb_padding", "rec_padding"} => ~undelayed

AnalysedIds == Concat(windows)

\* C15: no captured sample is in more than one analysis window, nor twice in
\* one; each window's samples are those of the frames it is made of.
C15_WindowsDisjoint ==
    /\ \A i, j \in 1 .. Len(AnalysedIds) :
           i # j => AnalysedIds[i] # AnalysedIds[j]
    /\ \A w \in 1 .. Len(windows) : Len(windows[w]) = SIZE
    /\ tickOutcome = "published" =>
           lastWindow = SamplesOfFrames(windows[Len(windows)])
    /\ program = "spectrum" => samples = SamplesOfFrames(sampleIds)

\* Two windows have been analysed.
C15_Witness == Len(windows) = 2 /\ Len(sampleIds) = 0

\* C16: every window is a contiguous run of the capture, and every sample of
\* a window was captured after every sample of every earlier window.
C16_WindowsFreshAndContiguous ==
    /\ \A w \in 1 .. Len(windows) :
           \A i \in 1 .. Len(windows[w]) - 1 :
               windows[w][i + 1] = windows[w][i] + 1
    /\ \A v, w \in 1 .. Len(windows) :
           v < w => \A i \in 1 .. Len(windows[v]) :
                        \A j \in 1 .. Len(windows[w]) : windows[v][i] < windows[w][j]

\* C17: at the end of every tick the queue holds fewer than SIZE samples.
C17_BacklogBelowWindow == (TickEnded /\ pc = "idle") => Len(samples) < SIZE

\* The frames slice::chunks cuts the chunk under test into.
ChunkFrames == Chunks(chunk, wave_format.block_align)

\* C18: every ingested frame appends exactly one sample, the signed 16-bit
\* little-endian integer of its first two bytes: b0 + 256*b1, less 65536 when
\* that is 32768 or more. Nothing else of the frame or of the format enters.
C18_SampleIsFirstTwoBytesLE ==
    (program = "ingest" /\ pc = "ingest_done") =>
        /\ Len(samples) = Len(tickStartSamples) + Len(ChunkFrames)
        /\ SubSeq(samples, 1, Len(tickStartSamples)) = tickStartSamples
        /\ \A i \in 1 .. Len(ChunkFrames) :
            LET u == ChunkFrames[i][1] + 256 * ChunkFrames[i][2] IN
            /\ u >= 32768 => samples[Len(tickStartSamples) + i] = u - 65536
            /\ u < 32768 => samples[Len(tickStartSamples) + i] = u

\* A four-byte frame was ingested: its first two bytes 1, 255 gave -255, its
\* last two bytes gave nothing.
C18_Witness ==
    /\ program = "ingest" /\ pc = "ingest_done"
    /\ wave_format.block_align = 4
    /\ chunk = <<1, 255, 255, 1>>
    /\ samples = <<0 - 255>>

\* The frames the device has handed over and taken back so far.
ConsumedCount ==
    produced - Len(Concat(packets))

\* C19: when capture_audio returns Ok, the payload is the bytes of every
\* buffer acquired in the loop, stored_frames * block_align of each, once and
\* in arrival order: the bytes of the frames consumed from the device.
C19_PayloadIsAllBuffers ==
    (program = "record" /\ pc = "rec_done") =>
        /\ held = <<>>
        /\ buffer_all =
               RegionBytes([i \in 1 .. ConsumedCount |-> i - 1],
                           wave_format.block_align)

\* The recorder returns a payload of several buffers.
C19_Witness ==
    /\ program = "record" /\ pc = "rec_done"
    /\ ConsumedCount >= 4
    /\ Len(packets) = 1
    /\ Len(buffer_all) = ConsumedCount * wave_format.block_align

\* C20: the published output has 0 or 69 points; it has none exactly as long
\* as no tick has extracted a window; once it has 69 no step changes that.
C20_IdleToReadyOneWay ==
    /\ [](/\ Len(data) \in {0, 69}
          /\ (Len(data) = 0) <=> (windows = <<>>))
    /\ [][Len(data) = 69 => Len(data') = 69]_vars

\* A short tick has followed a publication: the 69 points stand.
C20_Witness ==
    /\ Len(data) = 69
    /\ Len(windows) = 1
    /\ tickOutcome = "insufficient"
    /\ pc = "exited"

====
